---- MODULE Spec2Model ----
(***************************************************************************)
(* desktop_drop (Windows): the drop-target registrar, the root window      *)
(* message interceptor, the IDropTarget callbacks, the legacy WM_DROPFILES *)
(* path and the asynchronous UI-event payloads, as one state machine.      *)
(*                                                                         *)
(* Every C++ function is an operator from a state record to a state        *)
(* record; a handler that calls other functions is the composition of      *)
(* their operators.  An action evaluates one handler on the current state  *)
(* and commits the record it returns.  Callbacks and message handlers run  *)
(* to completion (OLE dispatches IDropTarget calls on the thread that owns *)
(* the registered window).                                                 *)
(***************************************************************************)
EXTENDS Integers, Sequences, FiniteSets, TLC

\* ------------------------------------------------------------------ bounds
MaxMsgs     == 4      \* capacity of the root window's message queue
MaxQueue    == 2      \* length of pending_add_ / pending_del_
StartMs     == 200    \* NowMs() when the process starts
TickMs      == 40     \* granularity of the clock
MaxNow      == 400    \* the clock stops here
MaxOleInits == 1      \* OleInitialize calls left without their OleUninitialize
MaxRefs == 5          \* references held on the target

\* --------------------------------------------------------------- constants
NULL      == 0                     \* nullptr / a null HWND
RootWin   == 1                     \* the Flutter view's native window
Wins      == {1, 2}                \* window handles; 2 is a child window of 1
Children  == Wins \ {RootWin}
TargetPtr == 1                     \* the DesktopDropTarget object

Debounce  == 200                   \* HandleDropFiles: now - last_drop_ms_ < 200

\* A DWORD flag word is the set of the indices of its 1-bits:
\* a & b is a \cap b, a | b is a \cup b, 0 is {}.
DROPEFFECT_NONE   == {}
DROPEFFECT_COPY   == {0}           \* 1
DROPEFFECT_MOVE   == {1}           \* 2
DROPEFFECT_LINK   == {2}           \* 4
DROPEFFECT_SCROLL == {31}          \* 0x80000000
MK_LBUTTON        == {0}           \* 0x0001
MK_SHIFT          == {2}           \* 0x0004
MK_CONTROL        == {3}           \* 0x0008

EffectMasks == SUBSET (DROPEFFECT_COPY \cup DROPEFFECT_MOVE \cup DROPEFFECT_LINK
                        \cup DROPEFFECT_SCROLL)
KeyStates   == SUBSET (MK_LBUTTON \cup MK_SHIFT \cup MK_CONTROL)

VARIABLES
  \* DropRegistrar
  root_, target_, registered_, pending_add_, pending_del_, pending_re_reg_,
  old_root_proc_,
  \* DesktopDropTarget
  in_ole_drop_, last_drop_ms_, need_revoke_ole_initialize_,
  \* the OS: valid windows, windows holding a drop-target registration, windows
  \* whose window procedure is RootSubclassProc, the root's posted messages
  alive, osReg, subclassed, msgq,
  \* the OleInitialize calls of the window's thread that no OleUninitialize has
  \* balanced yet
  oleInits,
  \* the steady clock
  now,
  \* arguments and result of the last effect resolution
  grfKeyState, allowedIn, pdwEffect,
  \* observation: the types of the payloads queued for delivery, in post order;
  \* the sweeps run since the last fresh sweep request; the operation that ran
  \* last, the payloads it saw the last of, whether it ran a sweep and with the
  \* session flag in which state, and the OS registration calls it made on
  \* handles that were no windows
  order, sweepsForReq, lastOp, lastOut, lastSweep, lastInvalidCalls,
  \* the reference registry of the registry-only specification
  ref,
  \* where the drag-protocol callback context (cb) and the message-processing
  \* context (mp) stand inside a mutation of the registry's containers, and the
  \* handle each is working on, in the specification that runs them as two threads
  ctx,
  \* the target's reference count, the state of the plugin object that holds the
  \* target ("none", "alive", "destroyed"), and how often delete this has run, in
  \* the specification of the target's lifetime
  ref_count_, facade, deleted

vars == << root_, target_, registered_, pending_add_, pending_del_, pending_re_reg_,
           old_root_proc_, in_ole_drop_, last_drop_ms_, need_revoke_ole_initialize_,
           alive, osReg, subclassed, msgq, oleInits, now,
           grfKeyState, allowedIn, pdwEffect, order, sweepsForReq, lastOp, lastOut,
           lastSweep, lastInvalidCalls, ref, ctx, ref_count_, facade, deleted >>

lifeVars == << ref_count_, facade, deleted >>

\* ------------------------------------------------------------ small helpers
QueuedEvs(q) == { q[i].ev : i \in { j \in 1..Len(q) : q[j].msg = "kMsgFireUiEvent" } }

Range(q) == { q[i] : i \in 1..Len(q) }

Min(S) == CHOOSE x \in S : \A y \in S : x <= y

RECURSIVE SetToSeq(_)
SetToSeq(S) == IF S = {} THEN << >> ELSE << Min(S) >> \o SetToSeq(S \ {Min(S)})

\* ------------------------------------------------------- Effect Resolver
ChooseAllowedEffect(allowed) ==
  IF (allowed \cap DROPEFFECT_COPY) # {} THEN DROPEFFECT_COPY
  ELSE IF (allowed \cap DROPEFFECT_LINK) # {} THEN DROPEFFECT_LINK
  ELSE IF (allowed \cap DROPEFFECT_MOVE) # {} THEN DROPEFFECT_MOVE
  ELSE DROPEFFECT_NONE

\* EffectFromKeyState without its final check against the allowed mask.
EffectFromKeyState_NoMaskCheck(key, allowed) ==
  IF (key \cap MK_CONTROL) # {} /\ (key \cap MK_SHIFT) # {} THEN DROPEFFECT_LINK
  ELSE IF (key \cap MK_CONTROL) # {} THEN DROPEFFECT_COPY
  ELSE IF (key \cap MK_SHIFT) # {} THEN DROPEFFECT_MOVE
  ELSE ChooseAllowedEffect(allowed)

EffectFromKeyState(key, allowed) ==
  LET want == IF (key \cap MK_CONTROL) # {} /\ (key \cap MK_SHIFT) # {} THEN DROPEFFECT_LINK
              ELSE IF (key \cap MK_CONTROL) # {} THEN DROPEFFECT_COPY
              ELSE IF (key \cap MK_SHIFT) # {} THEN DROPEFFECT_MOVE
              ELSE ChooseAllowedEffect(allowed)
  IN  IF (want \cap allowed) # {} THEN want ELSE ChooseAllowedEffect(allowed)

\* The prologue shared by DragEnter, DragOver and Drop: *pdwEffect in, out.
WriteBackEffect(key, inEff) ==
  LET allowed == IF inEff # {} THEN inEff
                 ELSE DROPEFFECT_COPY \cup DROPEFFECT_MOVE \cup DROPEFFECT_LINK
      eff     == EffectFromKeyState(key, allowed)
  IN  IF eff = DROPEFFECT_NONE THEN ChooseAllowedEffect(allowed) ELSE eff

\* ------------------------------------------------------------ state record
\* The current state as a record, with the scratch fields of one operation:
\* hr (last HRESULT), ev (last allocated payload), oscalls (OS registration
\* calls made), out (the payloads this operation saw the last of), sweep
\* (whether ForceReRegisterAll ran, and under which session flag),
\* regFail / revFail (windows on which the OS call fails).
Cur(regFail, revFail) ==
  [ root_ |-> root_, target_ |-> target_, registered_ |-> registered_,
    pending_add_ |-> pending_add_, pending_del_ |-> pending_del_,
    pending_re_reg_ |-> pending_re_reg_, old_root_proc_ |-> old_root_proc_,
    in_ole_drop_ |-> in_ole_drop_, last_drop_ms_ |-> last_drop_ms_,
    need_revoke_ole_initialize_ |-> need_revoke_ole_initialize_,
    alive |-> alive, osReg |-> osReg, subclassed |-> subclassed, msgq |-> msgq,
    oleInits |-> oleInits, now |-> now, order |-> order, sweepsForReq |-> sweepsForReq,
    hr |-> "S_OK", ev |-> NULL, oscalls |-> {}, out |-> {}, sweep |-> "none",
    regFail |-> regFail, revFail |-> revFail ]

Here == Cur({}, {})

\* ------------------------------------------------------------------ the OS
IsWindow(s, w) == w \in s.alive

SUCCEEDED(hr) == hr = "S_OK"

RegisterDragDrop(s, w) ==
  LET hr == IF w \notin s.alive THEN "DRAGDROP_E_INVALIDHWND"
            ELSE IF w \in s.osReg THEN "DRAGDROP_E_ALREADYREGISTERED"
            ELSE IF w \in s.regFail THEN "E_OUTOFMEMORY"
            ELSE "S_OK"
  IN  [ s EXCEPT !.hr = hr,
                 !.osReg = IF hr = "S_OK" THEN @ \cup {w} ELSE @,
                 !.oscalls = @ \cup {[fn |-> "RegisterDragDrop", w |-> w,
                                      valid |-> w \in s.alive]} ]

RevokeDragDrop(s, w) ==
  LET hr == IF w \notin s.alive THEN "DRAGDROP_E_INVALIDHWND"
            ELSE IF w \notin s.osReg THEN "DRAGDROP_E_NOTREGISTERED"
            ELSE IF w \in s.revFail THEN "E_OUTOFMEMORY"
            ELSE "S_OK"
  IN  [ s EXCEPT !.hr = hr,
                 !.osReg = IF hr = "S_OK" THEN @ \ {w} ELSE @,
                 !.oscalls = @ \cup {[fn |-> "RevokeDragDrop", w |-> w,
                                      valid |-> w \in s.alive]} ]

\* OleInitialize(nullptr) on the window's thread: S_OK, or S_FALSE where OLE is
\* initialized already; each has to be balanced by one OleUninitialize.
OleInitialize(s) == [ s EXCEPT !.oleInits = @ + 1 ]

OleUninitialize(s) == [ s EXCEPT !.oleInits = @ - 1 ]

\* PostMessage putting the message at the front of the queue.
PostMessage_Lifo(s, hwnd, m) ==
  IF hwnd \in s.alive THEN [ s EXCEPT !.msgq = << m >> \o @ ] ELSE s

\* PostMessage(hwnd, ...): appended to the window's queue; fails on a dead window.
PostMessage(s, hwnd, m) ==
  IF hwnd \in s.alive THEN [ s EXCEPT !.msgq = Append(@, m) ] ELSE s

\* -------------------------------------------------------- UiEventPayload
\* A payload is held by exactly one pointer at a time (the callback's local, then
\* the WPARAM of the posted message), so it is carried by value: its type, the
\* state of the file list it owns, how often it was delivered and deleted.

\* new UiEventPayload{type, x, y, files}
New(s, type) ==
  [ s EXCEPT !.ev = [ type |-> type, dlv |-> 0, del |-> 0,
                      files |-> IF type = "Performed" THEN "owned" ELSE "none" ] ]

\* The payload leaves the program's hands: what had become of it by then.
Gone(s, ev) == [ s EXCEPT !.out = @ \cup {ev} ]

\* delete ev: frees the struct; UiEventPayload has no destructor, so a file
\* list it still owns stays allocated with no owner.
Delete(s, ev) == Gone(s, [ ev EXCEPT !.del = @ + 1 ])

\* DesktopDropTarget::DeliverUiEvent: one channel_->InvokeMethod; for Performed
\* a unique_ptr takes the file list and frees it on return.
DeliverUiEvent(ev) ==
  [ ev EXCEPT !.dlv = @ + 1, !.files = IF @ = "owned" THEN "released" ELSE @ ]

\* DropRegistrar::PostUiEvent
PostUiEvent(s, ev) ==
  IF s.root_ = NULL \/ ~IsWindow(s, s.root_) THEN Delete(s, ev)
  ELSE LET t == PostMessage(s, s.root_, [ msg |-> "kMsgFireUiEvent", ev |-> ev ])
       IN  [ t EXCEPT !.order = Append(@, ev.type) ]

PostNew(s, type) == LET t == New(s, type) IN PostUiEvent(t, t.ev)

\* ------------------------------------------------------------ DropRegistrar
IsDragging(s) == IF s.target_ # NULL THEN s.in_ole_drop_ ELSE FALSE

RegisterOnWindow(s, w) ==
  IF w = NULL THEN s
  ELSE IF w \in s.registered_ THEN s
  ELSE IF IsDragging(s) THEN [ s EXCEPT !.pending_add_ = Append(@, w) ]
  ELSE LET t == RegisterDragDrop(s, w)
       IN  IF SUCCEEDED(t.hr) \/ t.hr = "DRAGDROP_E_ALREADYREGISTERED"
           THEN [ t EXCEPT !.registered_ = @ \cup {w} ]
           ELSE t

\* RevokeOnWindow without its lookup of w in registered_.
RevokeOnWindow_NoLookup(s, w) ==
  IF w = NULL THEN s
  ELSE IF IsDragging(s) THEN [ s EXCEPT !.pending_del_ = Append(@, w) ]
  ELSE LET t == RevokeDragDrop(s, w)
       IN  [ t EXCEPT !.registered_ = @ \ {w} ]

RevokeOnWindow(s, w) ==
  IF w = NULL THEN s
  ELSE IF w \notin s.registered_ THEN s
  ELSE IF IsDragging(s) THEN [ s EXCEPT !.pending_del_ = Append(@, w) ]
  ELSE LET t == RevokeDragDrop(s, w)
       IN  [ t EXCEPT !.registered_ = @ \ {w} ]

RECURSIVE FlushDel_NoWindowCheck(_, _)
\* The first loop of FlushPendingChildOps without its IsWindow(w) test.
FlushDel_NoWindowCheck(s, q) ==
  IF q = << >> THEN s
  ELSE LET w == Head(q)
           t == IF w # NULL
                THEN [ RevokeDragDrop(s, w) EXCEPT !.registered_ = @ \ {w} ]
                ELSE s
       IN  FlushDel_NoWindowCheck(t, Tail(q))

RECURSIVE FlushDel(_, _)
\* FlushPendingChildOps, first loop: for (HWND w : pending_del_)
FlushDel(s, q) ==
  IF q = << >> THEN s
  ELSE LET w == Head(q)
           t == IF w # NULL /\ IsWindow(s, w)
                THEN [ RevokeDragDrop(s, w) EXCEPT !.registered_ = @ \ {w} ]
                ELSE s
       IN  FlushDel(t, Tail(q))

RECURSIVE FlushAdd(_, _)
\* FlushPendingChildOps, second loop: for (HWND w : pending_add_)
FlushAdd(s, q) ==
  IF q = << >> THEN s
  ELSE LET w == Head(q)
           r == RegisterDragDrop(s, w)
           t == IF w # NULL /\ IsWindow(s, w)
                THEN IF SUCCEEDED(r.hr) \/ r.hr = "DRAGDROP_E_ALREADYREGISTERED"
                     THEN [ r EXCEPT !.registered_ = @ \cup {w} ]
                     ELSE r
                ELSE s
       IN  FlushAdd(t, Tail(q))

FlushPendingChildOps(s) ==
  LET d == [ FlushDel(s, s.pending_del_) EXCEPT !.pending_del_ = << >> ]
  IN  [ FlushAdd(d, d.pending_add_) EXCEPT !.pending_add_ = << >> ]

DoReRegister(s, w) ==
  LET v == [ RevokeDragDrop(s, w) EXCEPT !.registered_ = @ \ {w} ]
      r == RegisterDragDrop(v, w)
  IN  IF SUCCEEDED(r.hr) \/ r.hr = "DRAGDROP_E_ALREADYREGISTERED"
      THEN [ r EXCEPT !.registered_ = @ \cup {w} ]
      ELSE r

\* EnumChildProc: RegisterOnWindow(w); DragAcceptFiles(w, TRUE)
EnumChildProc(s, w) == RegisterOnWindow(s, w)

RECURSIVE EnumEach(_, _)
EnumEach(s, q) == IF q = << >> THEN s ELSE EnumEach(EnumChildProc(s, Head(q)), Tail(q))

\* EnumChildWindows(root, EnumChildProc, this): every live descendant of root,
\* none when root is no window.
EnumChildWindows(s, root) ==
  IF root \in s.alive THEN EnumEach(s, SetToSeq(Children \cap s.alive)) ELSE s

RECURSIVE ReRegisterEach(_, _)
\* ForceReRegisterAll: for (HWND w : snapshot).  The iteration order of the
\* unordered_set is unspecified; the re-registrations of distinct windows commute.
ReRegisterEach(s, q) ==
  IF q = << >> THEN s
  ELSE LET w == Head(q)
           t == IF w # NULL /\ IsWindow(s, w) /\ w # s.root_ THEN DoReRegister(s, w) ELSE s
       IN  ReRegisterEach(t, Tail(q))

ForceReRegisterAll(s) ==
  LET e == [ s EXCEPT !.sweep = IF IsDragging(s) THEN "dragging" ELSE "idle" ]
  IN  IF e.root_ = NULL \/ ~IsWindow(e, e.root_) THEN e
      ELSE LET snapshot == SetToSeq(e.registered_)
               a == DoReRegister(e, e.root_)
               b == ReRegisterEach(a, snapshot)
               c == EnumChildWindows(b, b.root_)
           IN  [ c EXCEPT !.sweepsForReq = IF @ < 2 THEN @ + 1 ELSE @ ]

\* RequestReRegisterAll posting the signal without setting pending_re_reg_.
RequestReRegisterAll_NoFlag(s) ==
  IF s.root_ = NULL \/ ~IsWindow(s, s.root_) THEN s
  ELSE PostMessage(s, s.root_, [ msg |-> "kMsgDoReRegister" ])

RequestReRegisterAll(s) ==
  IF s.root_ = NULL \/ ~IsWindow(s, s.root_) THEN s
  ELSE PostMessage([ s EXCEPT !.pending_re_reg_ = TRUE ], s.root_,
                   [ msg |-> "kMsgDoReRegister" ])

OnDragSessionEnd(s) ==
  LET t == FlushPendingChildOps(s)
  IN  IF t.pending_re_reg_ THEN RequestReRegisterAll(t) ELSE t

\* EnsureRegisteredUnderPoint doing nothing.
EnsureRegisteredUnderPoint_Skip(s, under) == s

EnsureRegisteredUnderPoint(s, under) ==
  IF under = NULL THEN s
  ELSE IF under \in s.registered_ THEN s
  ELSE RegisterOnWindow(s, under)

SubclassRootForDropfiles(s) ==
  IF s.root_ = NULL \/ ~IsWindow(s, s.root_) THEN s
  ELSE IF s.old_root_proc_ THEN s
  ELSE [ s EXCEPT !.subclassed = @ \cup {s.root_}, !.old_root_proc_ = TRUE ]

UnsubclassRootForDropfiles(s) ==
  IF s.root_ = NULL \/ ~IsWindow(s, s.root_) THEN s
  ELSE IF ~s.old_root_proc_ THEN s
  ELSE [ s EXCEPT !.subclassed = @ \ {s.root_}, !.old_root_proc_ = FALSE ]

Start(s, root, target) ==
  LET a == [ s EXCEPT !.root_ = root, !.target_ = target ]
      b == SubclassRootForDropfiles(a)
      c == RegisterOnWindow(b, b.root_)
  IN  EnumChildWindows(c, c.root_)

RECURSIVE StopRevokeEach(_, _)
\* Stop: for (HWND w : registered_) if (w && IsWindow(w)) RevokeDragDrop(w)
StopRevokeEach(s, q) ==
  IF q = << >> THEN s
  ELSE LET w == Head(q)
       IN  StopRevokeEach(IF w # NULL /\ IsWindow(s, w) THEN RevokeDragDrop(s, w) ELSE s,
                          Tail(q))

Stop(s) ==
  LET a == IF s.root_ # NULL THEN UnsubclassRootForDropfiles(s) ELSE s
      b == StopRevokeEach(a, SetToSeq(a.registered_))
  IN  [ b EXCEPT !.registered_ = {}, !.root_ = NULL, !.target_ = NULL,
                 !.pending_re_reg_ = FALSE,
                 !.pending_add_ = << >>, !.pending_del_ = << >> ]

\* --------------------------------------------------------- DesktopDropTarget
NowMs(s) == s.now

\* The constructor.  ctorFail is the number of its own RegisterDragDrop attempts
\* (first, retry after OleInitialize) that fail.
DesktopDropTarget(s, hwnd, ctorFail) ==
  LET o  == [ s EXCEPT !.in_ole_drop_ = FALSE, !.last_drop_ms_ = 0,
                       !.need_revoke_ole_initialize_ = FALSE ]
      r1 == RegisterDragDrop([ o EXCEPT !.regFail = IF ctorFail >= 1 THEN {hwnd} ELSE {} ],
                             hwnd)
      r2 == IF ~SUCCEEDED(r1.hr)
            THEN LET i == OleInitialize(r1)
                     r == RegisterDragDrop(
                            [ i EXCEPT !.regFail = IF ctorFail >= 2 THEN {hwnd} ELSE {} ],
                            hwnd)
                 IN  [ r EXCEPT !.need_revoke_ole_initialize_ = SUCCEEDED(r.hr) ]
            ELSE r1
  IN  Start([ r2 EXCEPT !.regFail = s.regFail ], hwnd, TargetPtr)

\* ~DesktopDropTarget
DestroyTarget(s) ==
  LET r == RevokeDragDrop(Stop(s), RootWin)
  IN  IF r.need_revoke_ole_initialize_ THEN OleUninitialize(r) ELSE r

DragEnter(s, under) ==
  LET a == [ s EXCEPT !.in_ole_drop_ = TRUE ]
      b == EnsureRegisteredUnderPoint(a, under)
  IN  PostNew(b, "Entered")

DragOver(s) == PostNew(s, "Updated")

DragLeave(s) ==
  LET a == [ s EXCEPT !.in_ole_drop_ = FALSE ]
      b == PostNew(a, "Exited")
      c == OnDragSessionEnd(b)
  IN  [ c EXCEPT !.last_drop_ms_ = NowMs(c) ]

Drop(s) ==
  LET a == PostNew(s, "Performed")
      b == PostNew(a, "Exited")
      c == [ b EXCEPT !.in_ole_drop_ = FALSE ]
      d == OnDragSessionEnd(c)
  IN  [ d EXCEPT !.last_drop_ms_ = NowMs(d) ]

\* HandleDropFiles without its first line, if (IsDragging()) return.
HandleDropFiles_NoSessionCheck(s) ==
  IF NowMs(s) - s.last_drop_ms_ < Debounce THEN s
  ELSE LET a == PostNew(s, "Entered")
           b == PostNew(a, "Performed")
           c == PostNew(b, "Exited")
           d == RequestReRegisterAll(c)
       IN  [ d EXCEPT !.last_drop_ms_ = NowMs(d),
                      !.sweepsForReq = IF d.pending_re_reg_ THEN 0 ELSE @ ]

\* HandleDropFiles without the comparison of now with last_drop_ms_.
HandleDropFiles_NoDebounce(s) ==
  IF s.in_ole_drop_ THEN s
  ELSE LET a == PostNew(s, "Entered")
           b == PostNew(a, "Performed")
           c == PostNew(b, "Exited")
           d == RequestReRegisterAll(c)
       IN  [ d EXCEPT !.last_drop_ms_ = NowMs(d),
                      !.sweepsForReq = IF d.pending_re_reg_ THEN 0 ELSE @ ]

HandleDropFiles(s) ==
  IF s.in_ole_drop_ THEN s
  ELSE IF NowMs(s) - s.last_drop_ms_ < Debounce THEN s
  ELSE LET a == PostNew(s, "Entered")
           b == PostNew(a, "Performed")
           c == PostNew(b, "Exited")
           d == RequestReRegisterAll(c)
       IN  [ d EXCEPT !.last_drop_ms_ = NowMs(d),
                      !.sweepsForReq = IF d.pending_re_reg_ THEN 0 ELSE @ ]

OnWmDropFiles(s) == IF s.target_ # NULL THEN HandleDropFiles(s) ELSE s

\* ------------------------------------------------------- RootSubclassProc
\* The kMsgDoReRegister handler sweeping whatever the session flag says.
OnDoReRegister_NoSessionCheck(s, hwnd) ==
  IF s.pending_re_reg_
  THEN ForceReRegisterAll([ s EXCEPT !.pending_re_reg_ = FALSE ])
  ELSE s

\* The kMsgDoReRegister handler leaving pending_re_reg_ set when it sweeps.
OnDoReRegister_KeepsFlag(s, hwnd) ==
  IF ~IsDragging(s) /\ s.pending_re_reg_
  THEN ForceReRegisterAll(s)
  ELSE IF s.pending_re_reg_
  THEN PostMessage(s, hwnd, [ msg |-> "kMsgDoReRegister" ])
  ELSE s

OnDoReRegister(s, hwnd) ==
  IF ~IsDragging(s) /\ s.pending_re_reg_
  THEN ForceReRegisterAll([ s EXCEPT !.pending_re_reg_ = FALSE ])
  ELSE IF s.pending_re_reg_
  THEN PostMessage(s, hwnd, [ msg |-> "kMsgDoReRegister" ])
  ELSE s

OnFireUiEvent(s, ev) ==
  LET t == [ s EXCEPT !.order = IF @ # << >> THEN Tail(@) ELSE @ ]
  IN  Delete(t, IF s.target_ # NULL THEN DeliverUiEvent(ev) ELSE ev)

\* WM_PARENTNOTIFY, LOWORD(wp) == WM_CREATE
OnChildCreate(s, hwnd, child) ==
  PostMessage(RegisterOnWindow(s, child), hwnd, [ msg |-> "kMsgDoReRegister" ])

\* WM_PARENTNOTIFY, LOWORD(wp) == WM_DESTROY
OnChildDestroy(s, child) == RevokeOnWindow(s, child)

RootSubclassProc(s, hwnd, m) ==
  IF m.msg = "kMsgDoReRegister" THEN OnDoReRegister(s, hwnd)
  ELSE IF m.msg = "kMsgFireUiEvent" THEN OnFireUiEvent(s, m.ev)
  ELSE IF m.msg = "WM_DROPFILES" THEN OnWmDropFiles(s)
  ELSE IF m.msg = "WM_PARENTNOTIFY_CREATE" THEN OnChildCreate(s, hwnd, m.child)
  ELSE IF m.msg = "WM_PARENTNOTIFY_DESTROY" THEN OnChildDestroy(s, m.child)
  ELSE s

\* ------------------------------------------------------------------ actions
\* Commit the record an operation returned.  An operation that would exceed a
\* bound of the model (message queue, pending queues) is not taken.
CommitFields(t, op) ==
  /\ Len(t.msgq) <= MaxMsgs
  /\ Len(t.pending_add_) <= MaxQueue
  /\ Len(t.pending_del_) <= MaxQueue
  /\ t.oleInits <= MaxOleInits
  /\ root_' = t.root_
  /\ target_' = t.target_
  /\ registered_' = t.registered_
  /\ pending_add_' = t.pending_add_
  /\ pending_del_' = t.pending_del_
  /\ pending_re_reg_' = t.pending_re_reg_
  /\ old_root_proc_' = t.old_root_proc_
  /\ in_ole_drop_' = t.in_ole_drop_
  /\ last_drop_ms_' = t.last_drop_ms_
  /\ need_revoke_ole_initialize_' = t.need_revoke_ole_initialize_
  /\ alive' = t.alive
  /\ osReg' = t.osReg
  /\ subclassed' = t.subclassed
  /\ msgq' = t.msgq
  /\ oleInits' = t.oleInits
  /\ now' = t.now
  /\ order' = t.order
  /\ sweepsForReq' = t.sweepsForReq
  /\ lastOp' = op
  /\ lastOut' = t.out
  /\ lastSweep' = t.sweep
  /\ lastInvalidCalls' = { [ fn |-> c.fn, w |-> c.w ] : c \in { d \in t.oscalls : ~d.valid } }
  /\ UNCHANGED << grfKeyState, allowedIn, pdwEffect >>

\* An operation run to completion by one thread.
CommitCore(t, op) == CommitFields(t, op) /\ UNCHANGED << ctx, lifeVars >>

Commit(t, op) == CommitCore(t, op) /\ UNCHANGED ref

\* The OS calls of one operation all succeed, or those on one window fail.
FailChoices == { {} } \cup { {w} : w \in Wins }

Init ==
  /\ root_ = NULL /\ target_ = NULL /\ registered_ = {}
  /\ pending_add_ = << >> /\ pending_del_ = << >> /\ pending_re_reg_ = FALSE
  /\ old_root_proc_ = FALSE
  /\ in_ole_drop_ = FALSE /\ last_drop_ms_ = 0 /\ need_revoke_ole_initialize_ = FALSE
  /\ alive \in { {RootWin} \cup c : c \in SUBSET Children }
  /\ osReg = {} /\ subclassed = {} /\ msgq = << >> /\ oleInits = 0
  /\ now = StartMs
  /\ grfKeyState = {} /\ allowedIn = {} /\ pdwEffect = {}
  /\ order = << >> /\ sweepsForReq = 0 /\ lastOp = "Init" /\ lastOut = {}
  /\ lastSweep = "none" /\ lastInvalidCalls = {}
  /\ ref = [ set |-> {}, del |-> {}, add |-> {}, ord |-> {}, session |-> FALSE ]
  /\ ctx = [ cb |-> "idle", cbW |-> NULL, mp |-> "idle", mpW |-> NULL ]
  /\ ref_count_ = 0 /\ facade = "none" /\ deleted = 0

\* DesktopDropPlugin::RegisterWithRegistrar: new DesktopDropTarget(channel, hwnd)
Construct ==
  /\ target_ = NULL
  /\ RootWin \in alive
  /\ \E ctorFail \in 0..2, regFail \in FailChoices :
       Commit(DesktopDropTarget(Cur(regFail, {}), RootWin, ctorFail), "Construct")

\* Release() reaching zero: delete this
Destroy ==
  /\ target_ # NULL
  /\ \E revFail \in FailChoices : Commit(DestroyTarget(Cur({}, revFail)), "Destroy")

\* OLE calls the IDropTarget of a registered window: DragEnter, then DragOver any
\* number of times, then DragLeave or Drop.
CbDragEnter ==
  /\ target_ # NULL
  /\ ~in_ole_drop_
  /\ osReg \cap alive # {}
  /\ \E under \in alive \cup {NULL} : Commit(DragEnter(Here, under), "DragEnter")

CbDragOver ==
  /\ target_ # NULL
  /\ in_ole_drop_
  /\ Commit(DragOver(Here), "DragOver")

CbDragLeave ==
  /\ target_ # NULL
  /\ in_ole_drop_
  /\ \E regFail \in FailChoices, revFail \in FailChoices :
       Commit(DragLeave(Cur(regFail, revFail)), "DragLeave")

CbDrop ==
  /\ target_ # NULL
  /\ in_ole_drop_
  /\ \E regFail \in FailChoices, revFail \in FailChoices :
       Commit(Drop(Cur(regFail, revFail)), "Drop")

\* The message loop hands the root window's next posted message to its window
\* procedure: RootSubclassProc while the subclass is installed.
Subclassed == RootWin \in alive /\ RootWin \in subclassed

MsgDoReRegister ==
  /\ Subclassed
  /\ msgq # << >>
  /\ Head(msgq).msg = "kMsgDoReRegister"
  /\ \E regFail \in FailChoices, revFail \in FailChoices :
       Commit(RootSubclassProc([ Cur(regFail, revFail) EXCEPT !.msgq = Tail(@) ],
                               RootWin, Head(msgq)), "kMsgDoReRegister")

MsgFireUiEvent ==
  /\ Subclassed
  /\ msgq # << >>
  /\ Head(msgq).msg = "kMsgFireUiEvent"
  /\ Commit(RootSubclassProc([ Here EXCEPT !.msgq = Tail(@) ], RootWin, Head(msgq)),
            "kMsgFireUiEvent")

\* With the subclass removed the original window procedure gets the message;
\* it does not know the private WM_APP messages and drops them.
MsgOriginalProc ==
  /\ RootWin \in alive
  /\ RootWin \notin subclassed
  /\ msgq # << >>
  /\ Commit(IF Head(msgq).msg = "kMsgFireUiEvent"
            THEN Gone([ Here EXCEPT !.msgq = Tail(@), !.order = Tail(@) ], Head(msgq).ev)
            ELSE [ Here EXCEPT !.msgq = Tail(@) ],
            "OriginalProc")

\* A source application drops files the legacy way: WM_DROPFILES reaches the root.
WmDropFiles ==
  /\ Subclassed
  /\ Commit(RootSubclassProc(Here, RootWin, [ msg |-> "WM_DROPFILES" ]), "WM_DROPFILES")

\* A child window of the root is created: the root is sent WM_PARENTNOTIFY.
ChildCreated ==
  \E w \in Children \ alive :
    /\ RootWin \in alive
    /\ \E regFail \in { {}, {w} } :
         LET s0 == [ Cur(regFail, {}) EXCEPT !.alive = @ \cup {w} ]
         IN  Commit(IF RootWin \in subclassed
                    THEN RootSubclassProc(s0, RootWin,
                                          [ msg |-> "WM_PARENTNOTIFY_CREATE", child |-> w ])
                    ELSE s0, "ChildCreated")

\* A child window is destroyed: the root is sent WM_PARENTNOTIFY while the child
\* is still a window, then the handle becomes invalid.
ChildDestroyed ==
  \E w \in Children \cap alive :
    \E revFail \in { {}, {w} } :
      LET s0 == Cur({}, revFail)
          s1 == IF Subclassed
                THEN RootSubclassProc(s0, RootWin,
                                      [ msg |-> "WM_PARENTNOTIFY_DESTROY", child |-> w ])
                ELSE s0
      IN  Commit([ s1 EXCEPT !.alive = @ \ {w}, !.osReg = @ \ {w} ], "ChildDestroyed")

\* The root window is destroyed, and its children with it: the system discards
\* the messages still posted to it.
RootDestroyed ==
  /\ RootWin \in alive
  /\ Commit([ Here EXCEPT !.alive = {}, !.osReg = {}, !.subclassed = @ \ {RootWin},
                          !.msgq = << >>, !.order = << >>, !.out = QueuedEvs(msgq) ],
            "RootDestroyed")

Tick ==
  /\ now + TickMs <= MaxNow
  /\ Commit([ Here EXCEPT !.now = @ + TickMs ], "Tick")

Next ==
  \/ Construct
  \/ Destroy
  \/ CbDragEnter
  \/ CbDragOver
  \/ CbDragLeave
  \/ CbDrop
  \/ MsgDoReRegister
  \/ MsgFireUiEvent
  \/ MsgOriginalProc
  \/ WmDropFiles
  \/ ChildCreated
  \/ ChildDestroyed
  \/ RootDestroyed

Spec == Init /\ [][Next]_vars

\* The target's callbacks, the legacy path and the message loop under a running
\* clock, with the windows left as they are.
NextTimed ==
  \/ Construct
  \/ CbDragEnter
  \/ CbDragOver
  \/ CbDragLeave
  \/ CbDrop
  \/ MsgDoReRegister
  \/ MsgFireUiEvent
  \/ WmDropFiles
  \/ Tick

SpecTimed == Init /\ [][NextTimed]_vars

\* The same with a message loop that keeps running: a posted message that has
\* reached the head of the queue is handled.  The second condition is
\* WF_vars(MsgDoReRegister) written out, with the action's guard in the place of
\* ENABLED <<MsgDoReRegister>>_vars.
DoReRegisterDue == Subclassed /\ msgq # << >> /\ Head(msgq).msg = "kMsgDoReRegister"

SpecTimedFair ==
  /\ SpecTimed
  /\ WF_vars(MsgFireUiEvent)
  /\ ([]<>(~DoReRegisterDue) \/ []<><<MsgDoReRegister>>_vars)

\* The target on a root window that stays, child windows coming and going, and
\* a message loop that keeps running.
NextChildren ==
  \/ Construct
  \/ CbDragEnter
  \/ CbDragOver
  \/ CbDragLeave
  \/ CbDrop
  \/ MsgDoReRegister
  \/ MsgFireUiEvent
  \/ WmDropFiles
  \/ ChildCreated
  \/ ChildDestroyed

SpecChildren == Init /\ [][NextChildren]_vars

SpecChildrenFair ==
  /\ SpecChildren
  /\ WF_vars(MsgFireUiEvent)
  /\ ([]<>(~DoReRegisterDue) \/ []<><<MsgDoReRegister>>_vars)

\* ------------------------------------------------------------ two contexts
\* The IDropTarget callbacks on one thread (cb) and the root window's message
\* loop on another (mp), each container operation of the registrar taking time:
\* a thread is inside push_back on pending_add_ ("push_add") or pending_del_
\* ("push_del"), inside insert or erase on registered_, or inside
\* FlushPendingChildOps ("flush"), which iterates and clears both queues and
\* inserts into and erases from registered_.
Mutates(pc) ==
  IF pc = "push_add" THEN { "pending_add_" }
  ELSE IF pc = "push_del" THEN { "pending_del_" }
  ELSE IF pc \in { "insert", "erase" } THEN { "registered_" }
  ELSE IF pc = "flush" THEN { "registered_", "pending_add_", "pending_del_" }
  ELSE {}

Racing == Mutates(ctx.cb) \cap Mutates(ctx.mp) # {}

\* Two unsynchronized writes to one container are a data race: the write that
\* finishes while the other is under way takes effect or is lost.
LostChoices == IF Racing THEN BOOLEAN ELSE { FALSE }

\* DragEnter up to the push_back of RegisterOnWindow: the flag is set, then
\* EnsureRegisteredUnderPoint looks the window up and RegisterOnWindow, finding
\* IsDragging(), goes to enqueue it.
CtxDragEnterBegin ==
  /\ target_ # NULL
  /\ ~in_ole_drop_
  /\ osReg \cap alive # {}
  /\ ctx.cb = "idle"
  /\ \E under \in alive \cup {NULL} :
       LET a == [ Here EXCEPT !.in_ole_drop_ = TRUE ]
       IN  IF under # NULL /\ under \notin a.registered_ /\ IsDragging(a)
           THEN /\ CommitFields(a, "DragEnter:flag")
                /\ ctx' = [ ctx EXCEPT !.cb = "push_add", !.cbW = under ]
           ELSE /\ CommitFields(PostNew(EnsureRegisteredUnderPoint(a, under), "Entered"),
                                "DragEnter")
                /\ UNCHANGED ctx
  /\ UNCHANGED << ref, lifeVars >>

\* The push_back completes and DragEnter posts Entered.
CtxDragEnterEnd ==
  /\ ctx.cb = "push_add"
  /\ \E lost \in LostChoices :
       LET a == IF lost THEN Here
                ELSE [ Here EXCEPT !.pending_add_ = Append(@, ctx.cbW) ]
       IN  CommitFields(PostNew(a, "Entered"), "DragEnter")
  /\ ctx' = [ ctx EXCEPT !.cb = "idle", !.cbW = NULL ]
  /\ UNCHANGED << ref, lifeVars >>

\* DragLeave up to its call of OnDragSessionEnd: the flag is cleared and Exited
\* posted; FlushPendingChildOps is entered.
CtxDragLeaveBegin ==
  /\ target_ # NULL
  /\ in_ole_drop_
  /\ ctx.cb = "idle"
  /\ CommitFields(PostNew([ Here EXCEPT !.in_ole_drop_ = FALSE ], "Exited"),
                  "DragLeave:flag")
  /\ ctx' = [ ctx EXCEPT !.cb = "flush" ]
  /\ UNCHANGED << ref, lifeVars >>

\* The flush completes; the rest of OnDragSessionEnd and of DragLeave.
CtxDragLeaveEnd ==
  /\ ctx.cb = "flush"
  /\ \E regFail \in FailChoices, revFail \in FailChoices :
       LET c == OnDragSessionEnd(Cur(regFail, revFail))
       IN  CommitFields([ c EXCEPT !.last_drop_ms_ = NowMs(c) ], "DragLeave")
  /\ ctx' = [ ctx EXCEPT !.cb = "idle" ]
  /\ UNCHANGED << ref, lifeVars >>

\* WM_PARENTNOTIFY / WM_CREATE up to the container operation of
\* RegisterOnWindow: the lookup in registered_, then IsDragging() read once.
CtxChildCreateBegin ==
  /\ Subclassed
  /\ ctx.mp = "idle"
  /\ \E w \in Children \ alive :
       LET s0 == [ Here EXCEPT !.alive = @ \cup {w} ]
       IN  IF w \in s0.registered_
           THEN /\ CommitFields(PostMessage(s0, RootWin, [ msg |-> "kMsgDoReRegister" ]),
                                "ChildCreated")
                /\ UNCHANGED ctx
           ELSE /\ CommitFields(s0, "ChildCreated:check")
                /\ ctx' = [ ctx EXCEPT !.mp = IF IsDragging(s0) THEN "push_add" ELSE "insert",
                                        !.mpW = w ]
  /\ UNCHANGED << ref, lifeVars >>

\* The branch chosen is carried out, whatever the flag has become meanwhile:
\* push_back, or RegisterDragDrop and insert; then the signal is posted.
CtxChildCreateEnd ==
  /\ ctx.mp \in { "push_add", "insert" }
  /\ \E regFail \in { {}, {ctx.mpW} }, lost \in LostChoices :
       LET s == Cur(regFail, {})
           w == ctx.mpW
           r == RegisterDragDrop(s, w)
           a == IF ctx.mp = "push_add"
                THEN IF lost THEN s ELSE [ s EXCEPT !.pending_add_ = Append(@, w) ]
                ELSE IF (SUCCEEDED(r.hr) \/ r.hr = "DRAGDROP_E_ALREADYREGISTERED") /\ ~lost
                     THEN [ r EXCEPT !.registered_ = @ \cup {w} ]
                     ELSE r
       IN  CommitFields(PostMessage(a, RootWin, [ msg |-> "kMsgDoReRegister" ]),
                        "ChildCreated")
  /\ ctx' = [ ctx EXCEPT !.mp = "idle", !.mpW = NULL ]
  /\ UNCHANGED << ref, lifeVars >>

\* WM_PARENTNOTIFY / WM_DESTROY up to the container operation of RevokeOnWindow.
CtxChildDestroyBegin ==
  /\ Subclassed
  /\ ctx.mp = "idle"
  /\ \E w \in Children \cap alive :
       IF w \notin registered_
       THEN /\ CommitFields([ Here EXCEPT !.alive = @ \ {w}, !.osReg = @ \ {w} ],
                            "ChildDestroyed")
            /\ UNCHANGED ctx
       ELSE /\ CommitFields(Here, "ChildDestroyed:check")
            /\ ctx' = [ ctx EXCEPT !.mp = IF IsDragging(Here) THEN "push_del" ELSE "erase",
                                    !.mpW = w ]
  /\ UNCHANGED << ref, lifeVars >>

\* push_back, or RevokeDragDrop and erase; then the window is gone.
CtxChildDestroyEnd ==
  /\ ctx.mp \in { "push_del", "erase" }
  /\ \E revFail \in { {}, {ctx.mpW} }, lost \in LostChoices :
       LET s == Cur({}, revFail)
           w == ctx.mpW
           v == RevokeDragDrop(s, w)
           a == IF ctx.mp = "push_del"
                THEN IF lost THEN s ELSE [ s EXCEPT !.pending_del_ = Append(@, w) ]
                ELSE IF lost THEN v ELSE [ v EXCEPT !.registered_ = @ \ {w} ]
       IN  CommitFields([ a EXCEPT !.alive = @ \ {w}, !.osReg = @ \ {w} ], "ChildDestroyed")
  /\ ctx' = [ ctx EXCEPT !.mp = "idle", !.mpW = NULL ]
  /\ UNCHANGED << ref, lifeVars >>

\* The message loop dispatches a posted message once the handler before it
\* has returned.
CtxDoReRegister == ctx.mp = "idle" /\ MsgDoReRegister

CtxFireUiEvent == ctx.mp = "idle" /\ MsgFireUiEvent

NextContexts ==
  \/ Construct
  \/ CtxDragEnterBegin
  \/ CtxDragEnterEnd
  \/ CtxDragLeaveBegin
  \/ CtxDragLeaveEnd
  \/ CtxChildCreateBegin
  \/ CtxChildCreateEnd
  \/ CtxChildDestroyBegin
  \/ CtxChildDestroyEnd
  \/ CtxDoReRegister
  \/ CtxFireUiEvent

SpecContexts == Init /\ [][NextContexts]_vars

\* ---------------------------------------------------- the Window Registry alone
\* The reference registry: a set of windows; a mutation requested outside a
\* session is applied at once, one requested within a session is applied when
\* the session ends, the deletes before the adds (set).  Beside it, the set
\* that applying every request in request order gives (ord): the two differ
\* when one session both registers and revokes a window.
RefRegister(r, w) ==
  IF w = NULL THEN r
  ELSE IF r.session THEN [ r EXCEPT !.add = @ \cup {w}, !.ord = @ \cup {w} ]
  ELSE [ r EXCEPT !.set = @ \cup {w}, !.ord = @ \cup {w} ]

RefRevoke(r, w) ==
  IF w = NULL THEN r
  ELSE IF r.session THEN [ r EXCEPT !.del = @ \cup {w}, !.ord = @ \ {w} ]
  ELSE [ r EXCEPT !.set = @ \ {w}, !.ord = @ \ {w} ]

RefSessionStart(r) == [ r EXCEPT !.session = TRUE ]

RefFlush(r) == [ set |-> (r.set \ r.del) \cup r.add, del |-> {}, add |-> {},
                 ord |-> r.ord, session |-> FALSE ]

\* The registry driven through its operations on live windows with every OS call
\* succeeding, the reference registry given the same requests.
\* Start: registers the root and each of its children.
RegistryStart ==
  /\ target_ = NULL
  /\ RootWin \in alive
  /\ CommitCore(DesktopDropTarget(Here, RootWin, 0), "Construct")
  /\ ref' = [ ref EXCEPT !.set = @ \cup {RootWin} \cup (Children \cap alive),
                          !.ord = @ \cup {RootWin} \cup (Children \cap alive) ]

RegisterWindow ==
  /\ target_ # NULL
  /\ \E w \in alive :
       /\ CommitCore(RegisterOnWindow(Here, w), "RegisterOnWindow")
       /\ ref' = RefRegister(ref, w)

RevokeWindow ==
  /\ target_ # NULL
  /\ \E w \in alive :
       /\ CommitCore(RevokeOnWindow(Here, w), "RevokeOnWindow")
       /\ ref' = RefRevoke(ref, w)

\* DragEnter: the session starts, then EnsureRegisteredUnderPoint requests the
\* registration of the window under the cursor unless it is registered.
RegistrySessionStart ==
  /\ target_ # NULL
  /\ ~in_ole_drop_
  /\ osReg \cap alive # {}
  /\ \E under \in alive \cup {NULL} :
       /\ CommitCore(DragEnter(Here, under), "DragEnter")
       /\ ref' = IF under \in registered_ THEN RefSessionStart(ref)
                 ELSE RefRegister(RefSessionStart(ref), under)

RegistryDragLeave ==
  /\ target_ # NULL
  /\ in_ole_drop_
  /\ CommitCore(DragLeave(Here), "DragLeave")
  /\ ref' = RefFlush(ref)

RegistryDrop ==
  /\ target_ # NULL
  /\ in_ole_drop_
  /\ CommitCore(Drop(Here), "Drop")
  /\ ref' = RefFlush(ref)

NextRegistry ==
  \/ RegistryStart
  \/ RegisterWindow
  \/ RevokeWindow
  \/ RegistrySessionStart
  \/ RegistryDragLeave
  \/ RegistryDrop
  \/ MsgFireUiEvent

SpecRegistry == Init /\ [][NextRegistry]_vars

\* ---------------------------------------------------- start / stop cycles
\* A new top-level window takes the place of a root window that was destroyed:
\* it has no subclass, no window property and no drop registration.
RootCreated ==
  /\ RootWin \notin alive
  /\ Commit([ Here EXCEPT !.alive = {RootWin} ], "RootCreated")

\* Targets constructed and destroyed one after the other (Start, Stop on the one
\* registrar) while root windows come and go.
NextRestart ==
  \/ Construct
  \/ Destroy
  \/ CbDragEnter
  \/ CbDragLeave
  \/ MsgDoReRegister
  \/ MsgFireUiEvent
  \/ MsgOriginalProc
  \/ ChildCreated
  \/ ChildDestroyed
  \/ RootDestroyed
  \/ RootCreated

SpecRestart == Init /\ [][NextRestart]_vars

\* ------------------------------------------------------- the target's lifetime
\* IUnknown on the target: ref_count_ starts at 1, AddRef increments it, Release
\* decrements it and runs delete this when it has reached zero.
AddRef(c) == c + 1

Release(c) == c - 1

\* What OLE does to the count in an operation that takes the OS registrations
\* from s to t: a RegisterDragDrop that succeeds keeps a reference on the target
\* (AddRef), a RevokeDragDrop that succeeds gives it back (Release).
OleRefs(s, t) == Cardinality(t.osReg \ s.osReg) - Cardinality(s.osReg \ t.osReg)

\* An operation of the target while the count is kept: d is what OLE added to
\* the count; a Release by OLE that reaches zero runs delete this.
LifeCommit(t, op, d) ==
  /\ CommitFields(t, op)
  /\ ref_count_' = ref_count_ + d
  /\ ref_count_' <= MaxRefs
  /\ deleted' = IF ref_count_ > 0 /\ ref_count_' <= 0 THEN deleted + 1 ELSE deleted
  /\ UNCHANGED << facade, ref, ctx >>

\* DesktopDropPlugin::RegisterWithRegistrar: new DesktopDropTarget (the count is
\* 1 and OLE adds a reference for each registration that succeeds), then the
\* plugin object is made and its constructor calls AddRef.
LifeRegisterWithRegistrar ==
  /\ facade = "none"
  /\ target_ = NULL
  /\ RootWin \in alive
  /\ \E ctorFail \in 0..2, regFail \in FailChoices :
       LET s == Cur(regFail, {})
           t == DesktopDropTarget(s, RootWin, ctorFail)
       IN  /\ CommitFields(t, "Construct")
           /\ ref_count_' = AddRef(1 + OleRefs(s, t))
           /\ facade' = "alive"
           /\ UNCHANGED << deleted, ref, ctx >>

\* ~DesktopDropPlugin: target_->Release(); the target's destructor runs when the
\* count has reached zero.
LifePluginDestroyed ==
  /\ facade = "alive"
  /\ \E revFail \in FailChoices :
       LET c == Release(ref_count_)
           s == Cur({}, revFail)
           t == IF c = 0 THEN DestroyTarget(s) ELSE s
       IN  /\ CommitFields(t, "PluginDestroyed")
           /\ ref_count_' = c + OleRefs(s, t)
           /\ deleted' = IF c = 0 THEN deleted + 1 ELSE deleted
           /\ facade' = "destroyed"
           /\ UNCHANGED << ref, ctx >>

LifeDragLeave ==
  /\ target_ # NULL
  /\ in_ole_drop_
  /\ \E regFail \in FailChoices, revFail \in FailChoices :
       LET s == Cur(regFail, revFail)
           t == DragLeave(s)
       IN  LifeCommit(t, "DragLeave", OleRefs(s, t))

LifeDoReRegister ==
  /\ DoReRegisterDue
  /\ \E regFail \in FailChoices, revFail \in FailChoices :
       LET s == Cur(regFail, revFail)
           t == RootSubclassProc([ s EXCEPT !.msgq = Tail(@) ], RootWin, Head(msgq))
       IN  LifeCommit(t, "kMsgDoReRegister", OleRefs(s, t))

LifeChildCreated ==
  \E w \in Children \ alive :
    /\ RootWin \in alive
    /\ \E regFail \in { {}, {w} } :
         LET s == [ Cur(regFail, {}) EXCEPT !.alive = @ \cup {w} ]
             t == IF RootWin \in subclassed
                  THEN RootSubclassProc(s, RootWin,
                                        [ msg |-> "WM_PARENTNOTIFY_CREATE", child |-> w ])
                  ELSE s
         IN  LifeCommit(t, "ChildCreated", OleRefs(s, t))

\* A window destroyed while it is registered takes its registration with it
\* without a RevokeDragDrop: the reference OLE held for it is not given back.
LifeChildDestroyed ==
  \E w \in Children \cap alive :
    \E revFail \in { {}, {w} } :
      LET s == Cur({}, revFail)
          t == IF Subclassed
               THEN RootSubclassProc(s, RootWin,
                                     [ msg |-> "WM_PARENTNOTIFY_DESTROY", child |-> w ])
               ELSE s
      IN  LifeCommit([ t EXCEPT !.alive = @ \ {w}, !.osReg = @ \ {w} ], "ChildDestroyed",
                     OleRefs(s, t))

NextLifetime ==
  \/ LifeRegisterWithRegistrar
  \/ LifePluginDestroyed
  \/ CbDragEnter
  \/ LifeDragLeave
  \/ LifeDoReRegister
  \/ MsgFireUiEvent
  \/ LifeChildCreated
  \/ LifeChildDestroyed

SpecLifetime == Init /\ [][NextLifetime]_vars

\* The same with a message loop that keeps running.
SpecLifetimeFair ==
  /\ SpecLifetime
  /\ WF_vars(MsgFireUiEvent)
  /\ ([]<>(~DoReRegisterDue) \/ []<><<LifeDoReRegister>>_vars)

\* ------------------------------------------------- the Effect Resolver alone
\* EffectFromKeyState applied to every key state and every allowed mask.
Resolve ==
  /\ \E key \in KeyStates, allowed \in EffectMasks :
       /\ grfKeyState' = key
       /\ allowedIn' = allowed
       /\ pdwEffect' = EffectFromKeyState(key, allowed)
  /\ lastOp' = "EffectFromKeyState"
  /\ UNCHANGED << root_, target_, registered_, pending_add_, pending_del_,
                  pending_re_reg_, old_root_proc_, in_ole_drop_, last_drop_ms_,
                  need_revoke_ole_initialize_, alive, osReg, subclassed, msgq, oleInits,
                  now, order, sweepsForReq, lastOut, lastSweep, lastInvalidCalls, ref, ctx,
                  lifeVars >>

\* The prologue of DragEnter, DragOver and Drop applied to every key state and
\* every incoming *pdwEffect.
ResolveInCallback ==
  /\ \E key \in KeyStates, inEff \in EffectMasks :
       /\ grfKeyState' = key
       /\ allowedIn' = inEff
       /\ pdwEffect' = WriteBackEffect(key, inEff)
  /\ lastOp' = "WriteBackEffect"
  /\ UNCHANGED << root_, target_, registered_, pending_add_, pending_del_,
                  pending_re_reg_, old_root_proc_, in_ole_drop_, last_drop_ms_,
                  need_revoke_ole_initialize_, alive, osReg, subclassed, msgq, oleInits,
                  now, order, sweepsForReq, lastOut, lastSweep, lastInvalidCalls, ref, ctx,
                  lifeVars >>

NextEffect == Resolve \/ ResolveInCallback

SpecEffect == Init /\ [][NextEffect]_vars

\* ===================================================================== claims
RegistryOps == { "Construct", "Destroy", "DragLeave", "Drop", "kMsgDoReRegister",
                 "ChildCreated", "ChildDestroyed" }

SessionEnded == lastOp \in { "DragLeave", "Drop" }

SignalQueued == \E i \in 1..Len(msgq) : msgq[i].msg = "kMsgDoReRegister"

NPerformed(q) == Cardinality({ i \in 1..Len(q) : q[i] = "Performed" })

RootPosts(types) == IF root_ # NULL /\ root_ \in alive THEN types ELSE << >>

LegacySuppressed ==
  /\ msgq' = msgq
  /\ order' = order
  /\ pending_re_reg_' = pending_re_reg_
  /\ last_drop_ms_' = last_drop_ms_

\* C1: every payload handed to PostUiEvent, with the file list it owns, ends up
\* delivered exactly once or released without delivery exactly once: whenever a
\* payload leaves the program's hands its struct has been deleted once, it was
\* delivered at most once, and its file list is not left allocated and unowned.
C1_DeliveredOrReleasedOnce ==
  \A ev \in lastOut : ev.del = 1 /\ ev.dlv <= 1 /\ ev.files # "owned"

\* C2: after each end-of-session flush the registered-window set equals the set
\* of the reference registry, which applied every requested mutation once, in
\* request order, the deletes requested within the session before its adds.
\* Where request order and deletes-before-adds give different sets, either is
\* accepted.
C2_FlushMatchesReference ==
  SessionEnded => registered_ = ref.set \/ registered_ = ref.ord

\* C3: ForceReRegisterAll never executes while the session flag is true: no
\* sweep starts with the flag set, and the flag is clear when the sweep is done.
C3_NoSweepWhileDragging ==
  /\ lastSweep # "dragging"
  /\ lastSweep = "idle" => ~IsDragging(Here)

\* The signal was handled during a session: no sweep, the request still pending
\* and the signal posted again.
C3_Witness ==
  /\ lastOp = "kMsgDoReRegister"
  /\ IsDragging(Here)
  /\ lastSweep = "none"
  /\ pending_re_reg_
  /\ SignalQueued

\* C4: a requested sweep is not dropped and executes exactly once for its
\* request.  While the request is pending, no sweep has run for it and its
\* signal is in the message queue (a handler that meets an active session posts
\* it again); no request is ever swept twice; and, messages being processed, a
\* pending request is swept once sessions no longer start.
C4_SweepOncePerRequest ==
  /\ [](sweepsForReq <= 1)
  /\ [](pending_re_reg_ => sweepsForReq = 0 /\ SignalQueued)
  /\ (<>[](~in_ole_drop_)) => (pending_re_reg_ ~> (lastSweep = "idle"))

\* The sweep has run once for the request while a second signal (the
\* handler's own re-post or the end-of-session re-request) is still queued.
C4_Witness ==
  /\ lastOp = "kMsgDoReRegister"
  /\ lastSweep = "idle"
  /\ sweepsForReq = 1
  /\ ~pending_re_reg_
  /\ SignalQueued

\* C5: a legacy file-drop that arrives while a session is active, or less than
\* 200 ms after the last recorded drop completion (Drop, DragLeave and an
\* accepted legacy drop each record the current time), posts no event and
\* requests no sweep.
C5_LegacyDropSuppressed ==
  [][ /\ lastOp' \in { "Drop", "DragLeave" } => last_drop_ms_' = now
      /\ lastOp' = "WM_DROPFILES" =>
           IF in_ole_drop_ \/ now - last_drop_ms_ < Debounce
           THEN LegacySuppressed
           ELSE last_drop_ms_' = now
    ]_vars

\* A legacy drop arrived after a completion, inside the debounce window, and
\* nothing was recorded for it.
C5_Witness ==
  /\ lastOp = "WM_DROPFILES"
  /\ ~in_ole_drop_
  /\ last_drop_ms_ >= StartMs
  /\ last_drop_ms_ < now
  /\ now - last_drop_ms_ < Debounce

C7_FlushDropsDestroyedChild ==
  [][ lastOp' \in { "DragLeave", "Drop" } =>
        \A w \in Range(pending_del_) \ alive :
          /\ w \notin registered_'
          /\ [ fn |-> "RevokeDragDrop", w |-> w ] \notin lastInvalidCalls'
    ]_vars

\* C8: after every completed registry operation (start, registerWindow,
\* revokeWindow, flush, sweep, stop), no mutation being deferred by a session, a
\* window is in the registered set if and only if the OS holds a drop-target
\* registration for it.
C8_RegisteredIffOsRegistration ==
  lastOp \in RegistryOps /\ ~in_ole_drop_ => registered_ = osReg

CopyLinkMove == DROPEFFECT_COPY \cup DROPEFFECT_LINK \cup DROPEFFECT_MOVE

Resolved == lastOp = "EffectFromKeyState"

\* C9 as stated: for every modifier-key combination and every non-empty allowed
\* mask, EffectFromKeyState returns an effect present in the mask, and it
\* returns "none" only when the mask is empty.
C9_AnyNonEmptyMask ==
  Resolved /\ allowedIn # {} => pdwEffect # DROPEFFECT_NONE /\ pdwEffect \subseteq allowedIn

\* C9 amended: for every modifier-key combination and every allowed mask holding
\* at least one of copy, link, move, EffectFromKeyState returns one of copy,
\* link, move that is present in the mask; it returns "none" exactly when the
\* mask holds none of the three (the empty mask, or DROPEFFECT_SCROLL alone).
C9_MaskWithCopyLinkMove ==
  Resolved =>
    /\ (allowedIn \cap CopyLinkMove) # {} =>
          /\ pdwEffect \in { DROPEFFECT_COPY, DROPEFFECT_LINK, DROPEFFECT_MOVE }
          /\ pdwEffect \subseteq allowedIn
    /\ (pdwEffect = DROPEFFECT_NONE) <=> ((allowedIn \cap CopyLinkMove) = {})

\* Ctrl is held (copy wanted) but the mask allows move only: the fallback picks move.
C9_Witness ==
  /\ Resolved
  /\ grfKeyState = MK_CONTROL
  /\ allowedIn = DROPEFFECT_MOVE
  /\ pdwEffect = DROPEFFECT_MOVE

\* C10: payloads are delivered in the order they were posted: the message
\* handler delivers the payload posted first among those queued; Drop posts
\* Performed then Exited, an accepted legacy drop Entered, Performed, Exited.
C10_DeliveredInPostOrder ==
  [][ /\ lastOp' = "kMsgFireUiEvent" =>
           /\ order # << >>
           /\ order' = Tail(order)
           /\ \A ev \in lastOut' : ev.type = Head(order) /\ ev.dlv = 1
      /\ lastOp' = "Drop" => order' = order \o RootPosts(<< "Performed", "Exited" >>)
      /\ lastOp' = "WM_DROPFILES" /\ msgq' # msgq =>
           order' = order \o << "Entered", "Performed", "Exited" >>
    ]_vars

\* A drop's Performed has just been delivered and its Exited is next in line.
C10_Witness ==
  /\ lastOp = "kMsgFireUiEvent"
  /\ \E ev \in lastOut : ev.type = "Performed" /\ ev.dlv = 1
  /\ order # << >>
  /\ Head(order) = "Exited"

C12_DestroyUndoesOleInit ==
  lastOp = "Destroy" =>
    /\ target_ = NULL /\ root_ = NULL /\ registered_ = {}
    /\ oleInits = 0

\* C13: after Stop(), in whatever state it was called (within a session, after
\* the root window was destroyed), the registered set and both pending queues
\* are empty, the pending-reregistration flag is false, root_ and target_ are
\* null, and the interception is gone: no window has RootSubclassProc as its
\* window procedure and the registrar holds no saved original procedure.
C13_StopClearsRegistry ==
  lastOp = "Destroy" =>
    /\ registered_ = {}
    /\ pending_add_ = << >> /\ pending_del_ = << >>
    /\ ~pending_re_reg_
    /\ root_ = NULL /\ target_ = NULL
    /\ subclassed = {}
    /\ ~old_root_proc_

\* C14: the effect DragEnter, DragOver and Drop write back through pdwEffect is
\* the Effect Resolver's result for the modifier keys and the incoming mask: in
\* particular an effect of the incoming mask or "none", and "none" when the
\* incoming mask is empty.
C14_WriteBackIsResolve ==
  lastOp = "WriteBackEffect" =>
    /\ pdwEffect = EffectFromKeyState(grfKeyState, allowedIn)
    /\ allowedIn = {} => pdwEffect = DROPEFFECT_NONE

ChildNotified == lastOp = "ChildCreated" /\ Subclassed /\ ~in_ole_drop_

\* C15: a child-created notification received outside a session registers the
\* new child at once (it is in the registered set if the OS took the
\* registration) and is followed, messages being processed, by a sweep, whether
\* or not a sweep was pending; a child-destroyed notification received outside
\* a session leaves the child out of the registered set and of the OS's
\* registrations at once.
C15_ChildNotifications ==
  /\ [][ /\ lastOp' = "ChildCreated" /\ Subclassed /\ ~in_ole_drop_ =>
              \A w \in (alive' \ alive) \ registered_ :
                w \in registered_' <=> w \in osReg'
         /\ lastOp' = "ChildDestroyed" /\ Subclassed /\ ~in_ole_drop_ =>
              \A w \in alive \ alive' : w \notin registered_' /\ w \notin osReg'
       ]_vars
  /\ (<>[](~in_ole_drop_)) => (ChildNotified ~> (lastSweep = "idle"))

LegacyAccepted ==
  lastOp = "WM_DROPFILES" /\ ~in_ole_drop_ /\ last_drop_ms_ = now /\ pending_re_reg_

\* C16: an accepted legacy file-drop (no session active, 200 ms or more since
\* the last recorded completion) sets pending_re_reg_ and queues the signal;
\* then, the root window staying, messages being processed and sessions ceasing
\* to intervene, a sweep runs with no session active and pending_re_reg_ false.
C16_LegacyDropSweeps ==
  /\ [][ lastOp' = "WM_DROPFILES" /\ ~in_ole_drop_ /\ now - last_drop_ms_ >= Debounce =>
            pending_re_reg_' /\ SignalQueued' /\ last_drop_ms_' = now
       ]_vars
  /\ (<>[](~in_ole_drop_)) =>
       (LegacyAccepted ~> (lastSweep = "idle" /\ ~in_ole_drop_ /\ ~pending_re_reg_))

\* The sweep requested by a legacy drop has run, before the clock moved on:
\* the signal is consumed and the request served once.
C16_Witness ==
  /\ lastOp = "kMsgDoReRegister"
  /\ lastSweep = "idle"
  /\ ~pending_re_reg_
  /\ ~SignalQueued
  /\ last_drop_ms_ = now
  /\ sweepsForReq = 1

\* C17: RegisterOnWindow called within a session for a handle that is on the
\* add-queue already changes nothing: whenever an operation lengthens
\* pending_add_, the handle it appends was not in the queue before, so the
\* flush makes one RegisterDragDrop call for each queued handle.
C17_ReEnqueueIsNoOp ==
  [][ Len(pending_add_') > Len(pending_add_) =>
        /\ Len(pending_add_') = Len(pending_add_) + 1
        /\ pending_add_'[Len(pending_add_')] \notin Range(pending_add_)
    ]_vars

\* C18: with the callbacks on a thread of their own, the registered set and
\* the pending queues are never being mutated by the callback thread and by the
\* message-processing thread at the same time.
C18_NoConcurrentMutation == ~Racing

\* C19: DragEnter over a live window that is not registered returns with the
\* session flag true and the window in the registered set or on the add-queue;
\* and when the session ends (DragLeave or Drop), every window of the add-queue
\* that still exists and for which the OS holds a registration after the flush
\* (RegisterDragDrop succeeded or reported already-registered) is in the
\* registered set.
C19_EnterEnsuresRegistration ==
  [][ /\ target_ # NULL /\ ~in_ole_drop_ =>
           \A w \in alive \ registered_ :
             LET t == DragEnter(Here, w)
             IN  t.in_ole_drop_ /\ w \in t.registered_ \cup Range(t.pending_add_)
      /\ lastOp' = "DragEnter" => in_ole_drop_'
      /\ lastOp' \in { "DragLeave", "Drop" } =>
           \A w \in (Range(pending_add_) \cap alive) \cap osReg' : w \in registered_'
    ]_vars

\* DragEnter has returned with the window under the point, unregistered, on
\* the add-queue and the session flag set.
C19_Witness ==
  /\ lastOp = "DragEnter"
  /\ in_ole_drop_
  /\ pending_add_ # << >>
  /\ Range(pending_add_) \cap registered_ = {}
  /\ Range(pending_add_) \subseteq alive

\* C20: between operations no handle is both on the add-queue and in the
\* registered set, every handle on the delete-queue is in the registered set,
\* and no handle is on both queues; and while the session flag stays true no
\* operation other than Stop() changes the registered set.
C20_QueuesConsistentWithSet ==
  [][ /\ Range(pending_add_') \cap registered_' = {}
      /\ Range(pending_del_') \subseteq registered_'
      /\ Range(pending_add_') \cap Range(pending_del_') = {}
      /\ in_ole_drop_ /\ in_ole_drop_' /\ lastOp' # "Destroy" => registered_' = registered_
    ]_vars

\* Within a session the root was told of a registered child's destruction: the
\* revocation is on the delete-queue and the child still in the registered set.
C20_Witness ==
  /\ lastOp = "ChildDestroyed"
  /\ in_ole_drop_
  /\ target_ # NULL
  /\ pending_del_ # << >>
  /\ Range(pending_del_) \subseteq registered_

\* C21: with the callbacks on a thread of their own, whenever no session is
\* active and neither thread is inside a callback or a registry operation, both
\* pending queues are empty: no request stays on a queue after its session.
C21_NoStrandedRequest ==
  ~in_ole_drop_ /\ ctx.cb = "idle" /\ ctx.mp = "idle" =>
    pending_add_ = << >> /\ pending_del_ = << >>

\* C22: the count never goes below zero and delete this runs at most once; once
\* the plugin object that holds the target has been destroyed (its Release
\* called), the count eventually reaches zero and the target's teardown has run.
C22_TeardownAfterFacadeRelease ==
  /\ [](ref_count_ >= 0 /\ deleted <= 1)
  /\ (facade = "destroyed") ~> (ref_count_ = 0 /\ deleted = 1)

\* While a target exists the reference it is created with is still counted.
C22_CreatorReferenceKept == target_ # NULL => ref_count_ >= 1 /\ deleted = 0

\* C23: after every start on a live root window, also one that follows a stop
\* that found the previous root window destroyed, the message interception is
\* installed on the current root and the root is in the registry unless the OS
\* refused its registration.
C23_StartInstallsInterception ==
  lastOp = "Construct" =>
    /\ RootWin \in subclassed /\ old_root_proc_
    /\ RootWin \in osReg => RootWin \in registered_

C23_StartRegistersRoot ==
  lastOp = "Construct" => (RootWin \in osReg => RootWin \in registered_)
====
